---------------------------- MODULE Spec2Model ----------------------------
(***************************************************************************)
(* A model of the fuzzy matcher of sublime_fuzzy.                          *)
(*                                                                         *)
(*   src/src/parsing.rs   process_query, build_occurrences                 *)
(*   src/src/matching.rs  Match, Match::extend_with, ContinuousMatches     *)
(*   src/src/search.rs    FuzzySearch (builder), FuzzySearcher (search)    *)
(*   src/src/lib.rs       the crate root: best_match, format_simple        *)
(*   src/src/main.rs      the command-line front end                       *)
(*                                                                         *)
(* A string is a sequence of characters (code points); a character is a    *)
(* one-element name such as "a" or "U+0130".  Positions in a target are    *)
(* 0-based, as target_idx is in the source.                                *)
(***************************************************************************)
EXTENDS Integers, Sequences, FiniteSets, TLC

(***************************************************************************)
(* Bounds of the model.                                                    *)
(***************************************************************************)
MaxQueryLen == 2

MaxTargetLen == 3

MaxMatchLen == 2

MaxPos == 4

MaxConsecutive == 2

(***************************************************************************)
(* Characters.  The std functions char::is_whitespace, char::is_uppercase, *)
(* char::is_alphanumeric and str::to_lowercase are modelled on the         *)
(* characters the model uses.  U+0130 is LATIN CAPITAL LETTER I WITH DOT   *)
(* ABOVE, whose lower-case form is the two code points "i", U+0307         *)
(* (COMBINING DOT ABOVE).                                                  *)
(***************************************************************************)
LowerLetters ==
    {"a", "b", "c", "e", "g", "h", "i", "l", "m", "n", "o", "r", "s", "t", "v", "w"}

UpperLetters == {"A", "C", "S", "T", "U+0130"}

Separators == {"-", "_", " ", "U+0307", "U+1F440", "U+1F448", "U+1F980"}

\* char::is_whitespace
is_whitespace(c) == c = " "

\* char::is_uppercase
is_uppercase(c) == c \in UpperLetters

\* char::is_alphanumeric
is_alphanumeric(c) == c \in LowerLetters \cup UpperLetters

\* char::to_lowercase: the lower-case form of one character, a string
char_to_lowercase(c) ==
    CASE c = "A" -> <<"a">>
      [] c = "C" -> <<"c">>
      [] c = "S" -> <<"s">>
      [] c = "T" -> <<"t">>
      [] c = "U+0130" -> <<"i", "U+0307">>
      [] OTHER -> <<c>>

\* str::to_lowercase: the string of the lower-case forms, in order
RECURSIVE to_lowercase(_)
to_lowercase(s) ==
    IF s = <<>> THEN <<>>
    ELSE char_to_lowercase(Head(s)) \o to_lowercase(Tail(s))

Min(a, b) == IF a < b THEN a ELSE b

\* Option<T>: None is the empty sequence, Some(x) the sequence of x alone
None == <<>>

Some(x) == <<x>>

(***************************************************************************)
(* parsing.rs                                                              *)
(***************************************************************************)

\* fn is_word_sep
is_word_sep(c) == ~ is_alphanumeric(c)

\* struct QueryChar
QueryChar(original, lower) == [original |-> original, lower |-> lower]

\* fn process_query without its whitespace filter
process_query_keeps_whitespace(query) ==
    LET lower_query == to_lowercase(query)
        n == Min(Len(query), Len(lower_query))
    IN  [i \in 1..n |-> QueryChar(query[i], lower_query[i])]

\* fn process_query: the characters of the query zipped with the characters
\* of the lower-cased query, the pairs of a whitespace original dropped
process_query(query) ==
    LET lower_query == to_lowercase(query)
        n == Min(Len(query), Len(lower_query))
        zipped == [i \in 1..n |-> QueryChar(query[i], lower_query[i])]
        keep(qc) == ~ is_whitespace(qc.original)
    IN  SelectSeq(zipped, keep)

\* fn condense
condense(s, case_insensitive) ==
    {IF case_insensitive THEN s[i].lower ELSE s[i].original : i \in 1..Len(s)}

\* struct Occurrence
Occurrence(target_idx, is_start, char) ==
    [target_idx |-> target_idx, is_start |-> is_start, char |-> char]

\* occurrences.entry(key_char).or_insert(Vec::new()).push(occ)
push_occurrence(occurrences, key_char, occ) ==
    IF key_char \in DOMAIN occurrences
    THEN [occurrences EXCEPT ![key_char] = Append(@, occ)]
    ELSE (key_char :> <<occ>>) @@ occurrences

\* build_step marking a word start after a separator only, not at a change
\* of case
build_step_after_separator_only(st, i, lower_c, original_c, query_chars, ci) ==
    LET is_sep == is_word_sep(original_c)
        is_upper == is_uppercase(original_c)
        key_char == IF ci THEN lower_c ELSE original_c
        is_start == IF is_sep THEN FALSE ELSE st.prev_is_sep
        occs ==
            IF key_char \in query_chars
            THEN push_occurrence(st.occurrences, key_char,
                                 Occurrence(i, is_start, original_c))
            ELSE st.occurrences
    IN  IF is_sep
        THEN [prev_is_upper |-> FALSE, prev_is_sep |-> TRUE,
              prev_is_start |-> FALSE, occurrences |-> occs]
        ELSE [prev_is_upper |-> is_upper, prev_is_sep |-> is_sep,
              prev_is_start |-> is_start, occurrences |-> occs]

\* build_step marking a word start at every change of case, also right after
\* a word start
build_step_without_suppression(st, i, lower_c, original_c, query_chars, ci) ==
    LET is_sep == is_word_sep(original_c)
        is_upper == is_uppercase(original_c)
        key_char == IF ci THEN lower_c ELSE original_c
        is_start ==
            IF is_sep THEN FALSE
            ELSE IF st.prev_is_sep THEN TRUE
            ELSE st.prev_is_upper # is_upper
        occs ==
            IF key_char \in query_chars
            THEN push_occurrence(st.occurrences, key_char,
                                 Occurrence(i, is_start, original_c))
            ELSE st.occurrences
    IN  IF is_sep
        THEN [prev_is_upper |-> FALSE, prev_is_sep |-> TRUE,
              prev_is_start |-> FALSE, occurrences |-> occs]
        ELSE [prev_is_upper |-> is_upper, prev_is_sep |-> is_sep,
              prev_is_start |-> is_start, occurrences |-> occs]

\* One turn of the loop of build_occurrences, on the i-th pair (0-based) of
\* lower.chars().zip(string.chars()); st holds prev_is_upper, prev_is_sep,
\* prev_is_start and the map built so far.
build_step(st, i, lower_c, original_c, query_chars, case_insensitive) ==
    LET is_sep == is_word_sep(original_c)
        is_upper == is_uppercase(original_c)
        key_char == IF case_insensitive THEN lower_c ELSE original_c
        is_start ==
            IF is_sep THEN FALSE
            ELSE IF st.prev_is_sep THEN TRUE
            ELSE (~ st.prev_is_start) /\ (st.prev_is_upper # is_upper)
        occs ==
            IF key_char \in query_chars
            THEN push_occurrence(st.occurrences, key_char,
                                 Occurrence(i, is_start, original_c))
            ELSE st.occurrences
    IN  IF is_sep
        THEN [prev_is_upper |-> FALSE, prev_is_sep |-> TRUE,
              prev_is_start |-> FALSE, occurrences |-> occs]
        ELSE [prev_is_upper |-> is_upper, prev_is_sep |-> is_sep,
              prev_is_start |-> is_start, occurrences |-> occs]

RECURSIVE build_loop(_, _, _, _, _, _)
build_loop(st, i, lower, string, query_chars, case_insensitive) ==
    IF i >= Min(Len(lower), Len(string)) THEN st
    ELSE build_loop(build_step(st, i, lower[i + 1], string[i + 1],
                               query_chars, case_insensitive),
                    i + 1, lower, string, query_chars, case_insensitive)

\* fn build_occurrences: a map from key character to its occurrences
build_occurrences(query, string, case_insensitive) ==
    LET query_chars == condense(query, case_insensitive)
        lower == to_lowercase(string)
        st0 == [prev_is_upper |-> FALSE, prev_is_sep |-> TRUE,
                prev_is_start |-> FALSE, occurrences |-> <<>>]
    IN  build_loop(st0, 0, lower, string, query_chars, case_insensitive).occurrences

(***************************************************************************)
(* Scoring.  The struct Scoring and its presets are read by search.rs and  *)
(* matching.rs; the presets' values are those the documentation gives.     *)
(***************************************************************************)
Scoring(bonus_consecutive, bonus_word_start, bonus_match_case, penalty_distance) ==
    [bonus_consecutive |-> bonus_consecutive,
     bonus_word_start |-> bonus_word_start,
     bonus_match_case |-> bonus_match_case,
     penalty_distance |-> penalty_distance]

\* Scoring::default()
DEFAULT_SCORING == Scoring(8, 72, 8, 4)

\* Scoring::emphasize_distance()
EMPHASIZE_DISTANCE == Scoring(12, 24, 8, 12)

(***************************************************************************)
(* matching.rs                                                             *)
(***************************************************************************)

\* Match::with_matched
with_matched(score, consecutive, matched) ==
    [score |-> score, consecutive |-> consecutive, matched |-> matched]

\* Match::extend_with charging the distance itself, not the skipped characters
extend_with_full_distance(self, other, scoring) ==
    LET score1 == self.score + other.score
        consecutive1 == self.consecutive + other.consecutive
        matched1 == self.matched \o other.matched
    IN  IF self.matched # <<>> /\ other.matched # <<>>
        THEN LET distance == other.matched[1] - self.matched[Len(self.matched)]
             IN  CASE distance = 0 ->
                        with_matched(score1, consecutive1, matched1)
                   [] distance = 1 ->
                        with_matched(
                            score1 + (consecutive1 + 1) * scoring.bonus_consecutive,
                            consecutive1 + 1, matched1)
                   [] OTHER ->
                        with_matched(score1 - distance * scoring.penalty_distance,
                                     0, matched1)
        ELSE with_matched(score1, consecutive1, matched1)

\* Match::extend_with forgetting the run length of the match it takes in
extend_with_own_run(self, other, scoring) ==
    LET score1 == self.score + other.score
        consecutive1 == self.consecutive
        matched1 == self.matched \o other.matched
    IN  IF self.matched # <<>> /\ other.matched # <<>>
        THEN LET distance == other.matched[1] - self.matched[Len(self.matched)]
             IN  CASE distance = 0 ->
                        with_matched(score1, consecutive1, matched1)
                   [] distance = 1 ->
                        with_matched(
                            score1 + (consecutive1 + 1) * scoring.bonus_consecutive,
                            consecutive1 + 1, matched1)
                   [] OTHER ->
                        with_matched(
                            score1 - (distance - 1) * scoring.penalty_distance,
                            0, matched1)
        ELSE with_matched(score1, consecutive1, matched1)

\* Match::extend_with: self after self.extend_with(&other, scoring).  The
\* distance is a usize: the operator is used where first >= last.
extend_with(self, other, scoring) ==
    LET score1 == self.score + other.score
        consecutive1 == self.consecutive + other.consecutive
        matched1 == self.matched \o other.matched
    IN  IF self.matched # <<>> /\ other.matched # <<>>
        THEN LET distance == other.matched[1] - self.matched[Len(self.matched)]
             IN  CASE distance = 0 ->
                        with_matched(score1, consecutive1, matched1)
                   [] distance = 1 ->
                        with_matched(
                            score1 + (consecutive1 + 1) * scoring.bonus_consecutive,
                            consecutive1 + 1, matched1)
                   [] OTHER ->
                        with_matched(
                            score1 - (distance - 1) * scoring.penalty_distance,
                            0, matched1)
        ELSE with_matched(score1, consecutive1, matched1)

\* Iterator::max keeping the first of equal maxima
max_step_keeps_first(best, item) ==
    IF best = None \/ item.score > best[1].score THEN Some(item) ELSE best

\* Iterator::max under Match's Ord (by score): folding one more item into
\* the best so far; among equal maxima the last one is kept
max_step(best, item) ==
    IF best = None \/ item.score >= best[1].score THEN Some(item) ELSE best

(***************************************************************************)
(* search.rs: FuzzySearcher.  S is the searcher with the occurrences it is *)
(* run on: [query, scoring, case_insensitive, occurrences].  A call        *)
(* returns [res, cache, calls]: the Option<Match> returned, match_cache    *)
(* after the call, and the number of calls of match_ the call made.        *)
(***************************************************************************)

\* FuzzySearcher::queried_char
queried_char(S, qc) == IF S.case_insensitive THEN qc.lower ELSE qc.original

\* case_bonus comparing the lower-cased query character, not the original
case_bonus_of_lower(S, query_idx, occurrence) ==
    IF S.case_insensitive
    THEN (IF query_idx < Len(S.query)
          THEN (IF S.query[query_idx + 1].lower = occurrence.char THEN 1 ELSE 0)
          ELSE 0) * S.scoring.bonus_match_case
    ELSE 0

\* case_bonus granted in case-sensitive searches as well
case_bonus_in_both_modes(S, query_idx, occurrence) ==
    (IF query_idx < Len(S.query)
     THEN (IF S.query[query_idx + 1].original = occurrence.char THEN 1 ELSE 0)
     ELSE 0) * S.scoring.bonus_match_case

\* FuzzySearcher::case_bonus; query_idx is 0-based
case_bonus(S, query_idx, occurrence) ==
    IF S.case_insensitive
    THEN (IF query_idx < Len(S.query)
          THEN (IF S.query[query_idx + 1].original = occurrence.char THEN 1 ELSE 0)
          ELSE 0) * S.scoring.bonus_match_case
    ELSE 0

\* match_cache.insert(key, value)
cache_insert(cache, key, value) ==
    IF key \in DOMAIN cache THEN [cache EXCEPT ![key] = value]
    ELSE (key :> value) @@ cache

\* this_key of match_ that leaves the run length out
cache_key_without_run(query_idx, occurrence, consecutive) ==
    <<query_idx, occurrence.target_idx, 0>>

\* this_key of match_: the key of match_cache
cache_key(query_idx, occurrence, consecutive) ==
    <<query_idx, occurrence.target_idx, consecutive>>

RECURSIVE match_(_, _, _, _, _)
RECURSIVE match_next(_, _, _, _, _, _, _, _, _)

\* The iterator chain of match_ (filter, filter_map, max) from the i-th
\* element of occs on: best is the maximum so far.
match_next(S, occs, i, query_idx, occurrence, consecutive, cache, best, calls) ==
    IF i > Len(occs) THEN [best |-> best, cache |-> cache, calls |-> calls]
    ELSE LET o == occs[i] IN
         IF ~ (o.target_idx > occurrence.target_idx)
         THEN match_next(S, occs, i + 1, query_idx, occurrence, consecutive,
                         cache, best, calls)
         ELSE LET distance == o.target_idx - occurrence.target_idx
                  new_consecutive == IF distance = 1 THEN consecutive + 1 ELSE 0
                  r == match_(S, query_idx + 1, o, new_consecutive, cache)
                  best1 == IF r.res = None THEN best ELSE max_step(best, r.res[1])
              IN  match_next(S, occs, i + 1, query_idx, occurrence, consecutive,
                             r.cache, best1, calls + r.calls)

\* FuzzySearcher::match_; query_idx is 0-based, the index of the next query
\* character
match_(S, query_idx, occurrence, consecutive, cache) ==
    LET this_key == cache_key(query_idx, occurrence, consecutive) IN
    IF this_key \in DOMAIN cache
    THEN [res |-> cache[this_key], cache |-> cache, calls |-> 1]
    ELSE
    LET score == consecutive * S.scoring.bonus_consecutive
                 + (IF occurrence.is_start THEN 1 ELSE 0) * S.scoring.bonus_word_start
                 + case_bonus(S, query_idx - 1, occurrence)
        this_match == with_matched(score, consecutive, <<occurrence.target_idx>>)
    IN  IF ~ (query_idx < Len(S.query))
        THEN [res |-> Some(this_match),
              cache |-> cache_insert(cache, this_key, Some(this_match)),
              calls |-> 1]
        ELSE
        LET next_key == queried_char(S, S.query[query_idx + 1]) IN
        IF next_key \notin DOMAIN S.occurrences
        THEN [res |-> None, cache |-> cache_insert(cache, this_key, None),
              calls |-> 1]
        ELSE
        LET f == match_next(S, S.occurrences[next_key], 1, query_idx, occurrence,
                            consecutive, cache, None, 0)
            best_match == IF f.best = None THEN None
                          ELSE Some(extend_with(this_match, f.best[1], S.scoring))
        IN  [res |-> best_match,
             cache |-> cache_insert(f.cache, this_key, best_match),
             calls |-> 1 + f.calls]

\* The iterator chain of FuzzySearcher::best_match (filter_map, max)
RECURSIVE best_match_next(_, _, _, _, _, _)
best_match_next(S, occs, i, cache, best, calls) ==
    IF i > Len(occs) THEN [res |-> best, cache |-> cache, calls |-> calls]
    ELSE LET r == match_(S, 1, occs[i], 0, cache)
             best1 == IF r.res = None THEN best ELSE max_step(best, r.res[1])
         IN  best_match_next(S, occs, i + 1, r.cache, best1, calls + r.calls)

\* FuzzySearcher::best_match, on a searcher whose match_cache is empty
searcher_best_match(S) ==
    IF S.query = <<>> THEN [res |-> None, cache |-> <<>>, calls |-> 0]
    ELSE LET key == queried_char(S, S.query[1]) IN
         IF key \notin DOMAIN S.occurrences
         THEN [res |-> None, cache |-> <<>>, calls |-> 0]
         ELSE best_match_next(S, S.occurrences[key], 1, <<>>, None, 0)

\* FuzzySearcher::new with the occurrences the searcher is run on: fs is the
\* FuzzySearch [query, target, scoring, case_insensitive], scoring an Option
new_searcher(fs) ==
    LET processed_query == process_query(fs.query) IN
    [query |-> processed_query,
     scoring |-> IF fs.scoring = None THEN DEFAULT_SCORING ELSE fs.scoring[1],
     case_insensitive |-> fs.case_insensitive,
     occurrences |->
         build_occurrences(processed_query, fs.target, fs.case_insensitive)]

\* FuzzySearch::best_match
fuzzy_best_match(fs) ==
    IF Len(process_query(fs.query)) = 0 \/ Len(fs.target) = 0
    THEN [res |-> None, cache |-> <<>>, calls |-> 0]
    ELSE searcher_best_match(new_searcher(fs))

(***************************************************************************)
(* search.rs: the recursion of FuzzySearcher with the look-up of           *)
(* match_cache disabled; a call returns the Option<Match> only.            *)
(***************************************************************************)
RECURSIVE plain_match(_, _, _, _)
RECURSIVE plain_match_next(_, _, _, _, _, _, _)

\* The iterator chain of match_ (filter, filter_map, max)
plain_match_next(S, occs, i, query_idx, occurrence, consecutive, best) ==
    IF i > Len(occs) THEN best
    ELSE LET o == occs[i] IN
         IF ~ (o.target_idx > occurrence.target_idx)
         THEN plain_match_next(S, occs, i + 1, query_idx, occurrence,
                               consecutive, best)
         ELSE LET distance == o.target_idx - occurrence.target_idx
                  new_consecutive == IF distance = 1 THEN consecutive + 1 ELSE 0
                  r == plain_match(S, query_idx + 1, o, new_consecutive)
                  best1 == IF r = None THEN best ELSE max_step(best, r[1])
              IN  plain_match_next(S, occs, i + 1, query_idx, occurrence,
                                   consecutive, best1)

\* FuzzySearcher::match_ without its cache
plain_match(S, query_idx, occurrence, consecutive) ==
    LET score == consecutive * S.scoring.bonus_consecutive
                 + (IF occurrence.is_start THEN 1 ELSE 0) * S.scoring.bonus_word_start
                 + case_bonus(S, query_idx - 1, occurrence)
        this_match == with_matched(score, consecutive, <<occurrence.target_idx>>)
    IN  IF ~ (query_idx < Len(S.query)) THEN Some(this_match)
        ELSE
        LET next_key == queried_char(S, S.query[query_idx + 1]) IN
        IF next_key \notin DOMAIN S.occurrences THEN None
        ELSE
        LET best == plain_match_next(S, S.occurrences[next_key], 1, query_idx,
                                     occurrence, consecutive, None)
        IN  IF best = None THEN None
            ELSE Some(extend_with(this_match, best[1], S.scoring))

\* The iterator chain of FuzzySearcher::best_match (filter_map, max)
RECURSIVE plain_best_match_next(_, _, _, _)
plain_best_match_next(S, occs, i, best) ==
    IF i > Len(occs) THEN best
    ELSE LET r == plain_match(S, 1, occs[i], 0)
         IN  plain_best_match_next(S, occs, i + 1,
                 IF r = None THEN best ELSE max_step(best, r[1]))

\* FuzzySearch::best_match over the recursion without cache
plain_best_match(fs) ==
    IF Len(process_query(fs.query)) = 0 \/ Len(fs.target) = 0 THEN None
    ELSE LET S == new_searcher(fs) IN
         IF queried_char(S, S.query[1]) \notin DOMAIN S.occurrences THEN None
         ELSE plain_best_match_next(
                  S, S.occurrences[queried_char(S, S.query[1])], 1, None)

(***************************************************************************)
(* The strings of the documented examples and of the tests.                *)
(***************************************************************************)
str_scc == <<"s", "c", "c">>

str_SccsCoolController == <<"S", "c", "c", "s", "C", "o", "o", "l", "C", "o", "n", "t", "r", "o", "l", "l", "e", "r">>

str_SoccerCartoonController == <<"S", "o", "c", "c", "e", "r", "C", "a", "r", "t", "o", "o", "n", "C", "o", "n", "t", "r", "o", "l", "l", "e", "r">>

str_SCC == <<"S", "C", "C">>

str_ttt == <<"t", "t", "t">>

str_The_Two_Towers == <<"T", "h", "e", " ", "T", "w", "o", " ", "T", "o", "w", "e", "r", "s">>

str_TTT == <<"T", "T", "T">>

str_the_two_towers == <<"t", "h", "e", " ", "t", "w", "o", " ", "t", "o", "w", "e", "r", "s">>

str_t_t == <<"t", " ", "t">>

str_release == <<"r", "e", "l", "e", "a", "s", "e">>

str_some_release == <<"s", "o", "m", "e", "_", "r", "e", "l", "e", "a", "s", "e">>

str_a_release == <<"a", "_", "r", "e", "l", "e", "a", "s", "e">>

str_empty == <<>>

str_test == <<"t", "e", "s", "t">>

str_something == <<"s", "o", "m", "e", "t", "h", "i", "n", "g">>

str_Some_Search_Thing == <<"S", "o", "m", "e", " ", "S", "e", "a", "r", "c", "h", " ", "T", "h", "i", "n", "g">>

str_some_search_thing == <<"s", "o", "m", "e", " ", "s", "e", "a", "r", "c", "h", " ", "t", "h", "i", "n", "g">>

str_obscoll == <<"o", "b", "s", "c", "o", "l", "l">>

str_observablecollection == <<"o", "b", "s", "e", "r", "v", "a", "b", "l", "e", "c", "o", "l", "l", "e", "c", "t", "i", "o", "n">>

str_obsion == <<"o", "b", "s", "i", "o", "n">>

str_eyes == <<"U+1F440">>

str_crab_hand_eyes == <<"U+1F980", " ", "U+1F448", " ", "U+1F440">>

\* The (query, target) pairs of the documented examples and of the tests
Examples ==
    {<<str_scc, str_SccsCoolController>>,
     <<str_scc, str_SoccerCartoonController>>,
     <<str_SCC, str_SccsCoolController>>,
     <<str_ttt, str_The_Two_Towers>>,
     <<str_TTT, str_The_Two_Towers>>,
     <<str_TTT, str_the_two_towers>>,
     <<str_t_t, str_The_Two_Towers>>,
     <<str_release, str_some_release>>,
     <<str_release, str_a_release>>,
     <<str_empty, str_test>>,
     <<str_test, str_empty>>,
     <<str_something, str_Some_Search_Thing>>,
     <<str_something, str_some_search_thing>>,
     <<str_obscoll, str_observablecollection>>,
     <<str_obsion, str_observablecollection>>,
     <<str_eyes, str_crab_hand_eyes>>}

(***************************************************************************)
(* The state: a FuzzySearch being configured and then run (in one step,    *)
(* or call by call), a pair of Matches being merged, a ContinuousMatches   *)
(* iterator being drained, a call of the crate root's best_match followed  *)
(* by format_simple, and a FuzzySearch of the crate root run by its caller.*)
(***************************************************************************)
VARIABLES
    query,              \* FuzzySearch.query
    target,             \* FuzzySearch.target
    scoring,            \* FuzzySearch.scoring, an Option
    case_insensitive,   \* FuzzySearch.case_insensitive
    state,              \* "built", "running", or "done" once best_match returned
    result,             \* what best_match returned, an Option<Match>
    match_cache,        \* FuzzySearcher.match_cache when the search ended
    calls,              \* the number of calls of match_ the search made
    stack,              \* the frames of the calls of match_ now running
    top_iter,           \* the iterator chain of FuzzySearcher::best_match
    searcher,           \* the FuzzySearcher of the running search, an Option
    self_match,         \* the Match extend_with is called on
    other_match,        \* the Match it is extended with
    merge_scoring,      \* the Scoring of the merge
    merged,             \* None, or Some(self after extend_with)
    cm_matched,         \* ContinuousMatches.matched
    cm_current,         \* ContinuousMatches.current
    cm_yielded,         \* what the calls of next returned so far, in order
    lib_pattern,        \* the pattern lib.rs best_match is called with
    lib_target,         \* the target it is called with
    lib_state,          \* "start", "returned", "panicked", "formatted", "rescored"
    lib_result,         \* what lib.rs best_match returned, an Option<Match>
    lib_formatted,      \* what format_simple returned
    lib_search          \* the lib.rs FuzzySearch a caller built, an Option

vars == <<query, target, scoring, case_insensitive, state, result, match_cache,
          calls, stack, top_iter, searcher,
          self_match, other_match, merge_scoring, merged,
          cm_matched, cm_current, cm_yielded,
          lib_pattern, lib_target, lib_state, lib_result, lib_formatted,
          lib_search>>

search_vars == <<query, target, scoring, case_insensitive, state, result,
                 match_cache, calls, stack, top_iter,
                 searcher>>

merge_vars == <<self_match, other_match, merge_scoring, merged>>

runs_vars == <<cm_matched, cm_current, cm_yielded>>

lib_vars == <<lib_pattern, lib_target, lib_state, lib_result, lib_formatted,
              lib_search>>

\* The characters the bounded inputs are drawn from: a lower-case and an
\* upper-case letter, a separator, a whitespace, and a letter whose
\* lower-case form is two characters
Alphabet == {"a", "A", "-", " ", "U+0130"}

Strings(A, n) == UNION {[1..k -> A] : k \in 0..n}

\* The Scorings score_with is called with
ScoringChoices == {EMPHASIZE_DISTANCE}

NoMerge ==
    /\ self_match = with_matched(0, 0, <<>>)
    /\ other_match = with_matched(0, 0, <<>>)
    /\ merge_scoring = DEFAULT_SCORING
    /\ merged = None

NoSearch ==
    /\ query = <<>>
    /\ target = <<>>
    /\ scoring = None
    /\ case_insensitive = TRUE
    /\ state = "built"
    /\ result = None
    /\ match_cache = <<>>
    /\ calls = 0
    /\ stack = <<>>
    /\ top_iter = [pending |-> <<>>, best |-> None]
    /\ searcher = None

NoRuns ==
    /\ cm_matched = <<>>
    /\ cm_current = 0
    /\ cm_yielded = <<>>

NoLib ==
    /\ lib_pattern = <<>>
    /\ lib_target = <<>>
    /\ lib_state = "start"
    /\ lib_result = None
    /\ lib_formatted = None
    /\ lib_search = None

\* FuzzySearch::new(query, target)
new(q, t) ==
    /\ query = q
    /\ target = t
    /\ scoring = None
    /\ case_insensitive = TRUE
    /\ state = "built"
    /\ result = None
    /\ match_cache = <<>>
    /\ calls = 0
    /\ stack = <<>>
    /\ top_iter = [pending |-> <<>>, best |-> None]
    /\ searcher = None

\* FuzzySearch::score_with
score_with ==
    /\ state = "built"
    /\ \E s \in ScoringChoices : scoring' = Some(s)
    /\ UNCHANGED <<query, target, case_insensitive, state, result, match_cache,
                   calls, stack, top_iter, searcher>>
    /\ UNCHANGED <<merge_vars, runs_vars, lib_vars>>

\* FuzzySearch::case_sensitive
case_sensitive ==
    /\ state = "built"
    /\ case_insensitive' = FALSE
    /\ UNCHANGED <<query, target, scoring, state, result, match_cache, calls,
                   stack, top_iter, searcher>>
    /\ UNCHANGED <<merge_vars, runs_vars, lib_vars>>

\* FuzzySearch::case_insensitive
set_case_insensitive ==
    /\ state = "built"
    /\ case_insensitive' = TRUE
    /\ UNCHANGED <<query, target, scoring, state, result, match_cache, calls,
                   stack, top_iter, searcher>>
    /\ UNCHANGED <<merge_vars, runs_vars, lib_vars>>

\* The FuzzySearch of the state
current_search ==
    [query |-> query, target |-> target, scoring |-> scoring,
     case_insensitive |-> case_insensitive]

\* FuzzySearch::best_match
best_match ==
    /\ state = "built"
    /\ LET r == fuzzy_best_match(current_search)
       IN  /\ result' = r.res
           /\ match_cache' = r.cache
           /\ calls' = r.calls
    /\ state' = "done"
    /\ UNCHANGED <<query, target, scoring, case_insensitive, stack, top_iter,
                   searcher>>
    /\ UNCHANGED <<merge_vars, runs_vars, lib_vars>>

Init ==
    /\ \E q \in Strings(Alphabet, MaxQueryLen), t \in Strings(Alphabet, MaxTargetLen) :
           new(q, t)
    /\ NoMerge
    /\ NoRuns
    /\ NoLib

Next == score_with \/ case_sensitive \/ set_case_insensitive \/ best_match

\* Searches over all short strings of the Alphabet
Spec == Init /\ [][Next]_vars

InitExamples ==
    /\ \E e \in Examples : new(e[1], e[2])
    /\ NoMerge
    /\ NoRuns
    /\ NoLib

\* Searches of the documented examples
SpecExamples == InitExamples /\ [][Next]_vars

(***************************************************************************)
(* Merging two Matches with Match::extend_with.                            *)
(***************************************************************************)
ScoreValues == {-8, 16}

\* The strictly increasing position lists of at most MaxMatchLen positions
\* up to MaxPos
PositionLists ==
    {m \in Strings(0..MaxPos, MaxMatchLen) :
        \A i \in 1..(Len(m) - 1) : m[i] < m[i + 1]}

Matches ==
    {with_matched(sc, c, m) :
        sc \in ScoreValues, c \in 0..MaxConsecutive, m \in PositionLists}

\* The Matches of tests::extend_match and tests::extend_match_cont
TestMerges ==
    {<<with_matched(16, 3, <<1, 2, 3>>), with_matched(8, 3, <<5, 6, 7>>)>>,
     <<with_matched(16, 3, <<1, 2, 3>>), with_matched(8, 3, <<4, 5, 6>>)>>}

\* first - last is a usize subtraction: the pairs are those with first >= last
Mergeable(a, b) ==
    a.matched # <<>> /\ b.matched # <<>>
        => b.matched[1] >= a.matched[Len(a.matched)]

InitMerge ==
    /\ NoSearch
    /\ \E p \in ((Matches \X Matches) \cup TestMerges) :
           /\ Mergeable(p[1], p[2])
           /\ self_match = p[1]
           /\ other_match = p[2]
    /\ merge_scoring \in {DEFAULT_SCORING, EMPHASIZE_DISTANCE}
    /\ merged = None
    /\ NoRuns
    /\ NoLib

\* a.extend_with(&b, &s)
do_extend_with ==
    /\ merged = None
    /\ merged' = Some(extend_with(self_match, other_match, merge_scoring))
    /\ UNCHANGED <<self_match, other_match, merge_scoring>>
    /\ UNCHANGED <<search_vars, runs_vars, lib_vars>>

NextMerge == do_extend_with

SpecMerge == InitMerge /\ [][NextMerge]_vars

(***************************************************************************)
(* What the claims speak of, stated without the code's index.              *)
(***************************************************************************)

\* The query with its whitespace characters removed
NotWhitespace(c) == ~ is_whitespace(c)

StrippedQuery == SelectSeq(query, NotWhitespace)

\* Query character q and target character t are the same character: after
\* lower-casing both when case is ignored, exactly otherwise
SameChar(q, t, ci) ==
    IF ci THEN char_to_lowercase(q) = char_to_lowercase(t) ELSE q = t

\* The characters of q from the i-th on occur in t from the j-th on, in order
RECURSIVE OccursInOrderFrom(_, _, _, _, _)
OccursInOrderFrom(q, t, i, j, ci) ==
    IF i > Len(q) THEN TRUE
    ELSE IF j > Len(t) THEN FALSE
    ELSE IF SameChar(q[i], t[j], ci)
         THEN OccursInOrderFrom(q, t, i + 1, j + 1, ci)
         ELSE OccursInOrderFrom(q, t, i, j + 1, ci)

OccursInOrder(q, t, ci) == OccursInOrderFrom(q, t, 1, 1, ci)

StrictlyIncreasing(m) == \A i \in 1..(Len(m) - 1) : m[i] < m[i + 1]

\* The searcher of the state
current_searcher == new_searcher(current_search)

\* The occurrence of key character key at target position idx, an Option
occurrence_at(S, key, idx) ==
    IF key \notin DOMAIN S.occurrences THEN None
    ELSE LET at(o) == o.target_idx = idx
         IN  SelectSeq(S.occurrences[key], at)

\* The full alignments of the searcher's query: one position per query
\* character, strictly increasing, each an occurrence of that character
Alignments(S, target_len) ==
    {p \in [1..Len(S.query) -> 0..(target_len - 1)] :
        /\ StrictlyIncreasing(p)
        /\ \A i \in 1..Len(S.query) :
               occurrence_at(S, queried_char(S, S.query[i]), p[i]) # None}

\* The run length match_ is called with for the i-th position of p
RECURSIVE run_length(_, _)
run_length(p, i) ==
    IF i = 1 THEN 0
    ELSE IF p[i] - p[i - 1] = 1 THEN run_length(p, i - 1) + 1 ELSE 0

\* The Match of the i-th position of alignment p alone, as match_ builds it
local_match(S, p, i) ==
    LET occurrence == occurrence_at(S, queried_char(S, S.query[i]), p[i])[1]
        consecutive == run_length(p, i)
    IN  with_matched(
            consecutive * S.scoring.bonus_consecutive
            + (IF occurrence.is_start THEN 1 ELSE 0) * S.scoring.bonus_word_start
            + case_bonus(S, i - 1, occurrence),
            consecutive, <<p[i]>>)

\* The Match of alignment p from its i-th position on: the local Matches
\* folded from the right with extend_with
RECURSIVE alignment_match(_, _, _)
alignment_match(S, p, i) ==
    IF i = Len(p) THEN local_match(S, p, i)
    ELSE extend_with(local_match(S, p, i), alignment_match(S, p, i + 1), S.scoring)

(***************************************************************************)
(* The claims.                                                             *)
(***************************************************************************)

\* C1: for a query that is not empty once stripped and a target that is not
\* empty, best_match returns Some exactly when the characters of the stripped
\* query occur in the target in order (lower-cased on both sides when case
\* is ignored).
C1_SomeIffOccursInOrder ==
    (state = "done" /\ StrippedQuery # <<>> /\ target # <<>>)
        => ((result # None) <=> OccursInOrder(StrippedQuery, target, case_insensitive))

\* C2: the Match best_match returns has the maximum score over all full
\* alignments, each scored by the Matcher's own rules.
C2_ReturnsMaximumScore ==
    (state = "done" /\ result # None)
        => \A p \in Alignments(current_searcher, Len(target)) :
               alignment_match(current_searcher, p, 1).score <= result[1].score

\* C3: the Match best_match returns is a complete valid alignment: strictly
\* increasing, one position per character of the stripped query, every
\* position inside the target, the target character at each position the
\* same character as the query character.
C3_ReturnsValidAlignment ==
    (state = "done" /\ result # None)
        => LET m == result[1].matched IN
           /\ StrictlyIncreasing(m)
           /\ Len(m) = Len(StrippedQuery)
           /\ \A i \in 1..Len(m) : m[i] \in 0..(Len(target) - 1)
           /\ \A i \in 1..Min(Len(m), Len(StrippedQuery)) :
                  m[i] \in 0..(Len(target) - 1)
                      => SameChar(StrippedQuery[i], target[m[i] + 1], case_insensitive)

\* C4: best_match returns None, and match_ is never called, when the query
\* is empty or all whitespace or the target is empty.
C4_EmptyInputGivesNone ==
    (state = "done" /\ (StrippedQuery = <<>> \/ target = <<>>))
        => (result = None /\ calls = 0)

C4_Witness ==
    /\ state = "done"
    /\ query # <<>>
    /\ StrippedQuery = <<>>
    /\ target # <<>>
    /\ result = None

\* C5: process_query returns the non-whitespace characters of the query in
\* order, each paired with (the first code point of) its own lower-case
\* form, and best_match gives the same result for the query as for the
\* query with its whitespace removed.
C5_WhitespaceIsIgnored ==
    state = "done"
        => /\ process_query(query) =
                  [i \in 1..Len(StrippedQuery) |->
                      QueryChar(StrippedQuery[i],
                                Head(char_to_lowercase(StrippedQuery[i])))]
           /\ result =
                  fuzzy_best_match([current_search EXCEPT !.query = StrippedQuery]).res

\* The Match m with every position moved up by n
Shifted(m, n) ==
    [m EXCEPT !.matched = [i \in 1..Len(m.matched) |-> m.matched[i] + n]]

\* C6: a prefix of the target that holds no occurrence of the first query
\* character and ends with a separator changes nothing but the positions:
\* the target without the prefix gives None when the target gives None, and
\* otherwise a Match of the same score whose positions are lower by the
\* length of the prefix.
C6_PrefixIsNotPenalized ==
    (state = "done" /\ StrippedQuery # <<>>)
        => \A n \in 1..Len(target) :
               (/\ is_word_sep(target[n])
                /\ \A i \in 1..n :
                       ~ SameChar(StrippedQuery[1], target[i], case_insensitive))
                   => LET rest == SubSeq(target, n + 1, Len(target))
                          r == fuzzy_best_match(
                                   [current_search EXCEPT !.target = rest]).res
                      IN  IF r = None THEN result = None
                          ELSE /\ result # None
                               /\ result[1].score = r[1].score
                               /\ result[1].matched = Shifted(r[1], n).matched

DefaultCaseInsensitive == scoring = None /\ case_insensitive

\* C7: under the default scoring, case ignored, "scc" matches
\* "SccsCoolController" at 0, 4, 8 and "SoccerCartoonController" at 0, 6, 13.
C7_WordStartsPreferred ==
    (state = "done" /\ DefaultCaseInsensitive /\ query = str_scc)
        => /\ target = str_SccsCoolController
                  => (result # None /\ result[1].matched = <<0, 4, 8>>)
           /\ target = str_SoccerCartoonController
                  => (result # None /\ result[1].matched = <<0, 6, 13>>)

C7_Witness ==
    /\ state = "done"
    /\ DefaultCaseInsensitive
    /\ query = str_scc
    /\ target = str_SccsCoolController
    /\ result # None
    /\ calls > 0

\* C8: under the default scoring, case ignored, "ttt" and "TTT" match
\* "The Two Towers" and "TTT" matches "the two towers", and "TTT" scores
\* strictly higher on "The Two Towers" than "ttt" does.
C8_CaseMatchScoresHigher ==
    (state = "done" /\ DefaultCaseInsensitive)
        => /\ (query \in {str_ttt, str_TTT} /\ target = str_The_Two_Towers)
                  => result # None
           /\ (query = str_TTT /\ target = str_the_two_towers) => result # None
           /\ (query = str_TTT /\ target = str_The_Two_Towers)
                  => LET lower_case ==
                             fuzzy_best_match(
                                 [current_search EXCEPT !.query = str_ttt]).res
                     IN  /\ result # None
                         /\ lower_case # None
                         /\ result[1].score > lower_case[1].score

C8_Witness ==
    /\ state = "done"
    /\ DefaultCaseInsensitive
    /\ query = str_TTT
    /\ target = str_The_Two_Towers
    /\ result # None
    /\ result[1].matched = <<0, 4, 8>>

\* The distance of a merge: from the last position of self to the first of
\* other
MergeDistance ==
    other_match.matched[1] - self_match.matched[Len(self_match.matched)]

MergedBothNonEmpty ==
    merged # None /\ self_match.matched # <<>> /\ other_match.matched # <<>>

\* C9: extend_with across a gap (distance d > 1) gives the sum of the scores
\* less (d - 1) * penalty_distance, consecutive 0, and the positions of self
\* followed by those of other.
C9_ExtendAcrossGap ==
    (MergedBothNonEmpty /\ MergeDistance > 1)
        => /\ merged[1].score =
                  self_match.score + other_match.score
                  - (MergeDistance - 1) * merge_scoring.penalty_distance
           /\ merged[1].consecutive = 0
           /\ merged[1].matched = self_match.matched \o other_match.matched

\* tests::extend_match
C9_Witness ==
    /\ merged # None
    /\ self_match = with_matched(16, 3, <<1, 2, 3>>)
    /\ other_match = with_matched(8, 3, <<5, 6, 7>>)
    /\ merge_scoring = DEFAULT_SCORING
    /\ merged[1].score = 24 - 4
    /\ Len(merged[1].matched) = 6

\* C10: extend_with across a contiguous join (distance 1) gives consecutive
\* = the two run lengths + 1, the sum of the scores plus that run length
\* times bonus_consecutive, and the positions of self followed by those of
\* other.
C10_ExtendContiguous ==
    (MergedBothNonEmpty /\ MergeDistance = 1)
        => LET run == self_match.consecutive + other_match.consecutive + 1 IN
           /\ merged[1].consecutive = run
           /\ merged[1].score =
                  self_match.score + other_match.score
                  + run * merge_scoring.bonus_consecutive
           /\ merged[1].matched = self_match.matched \o other_match.matched

\* tests::extend_match_cont
C10_Witness ==
    /\ merged # None
    /\ self_match = with_matched(16, 3, <<1, 2, 3>>)
    /\ other_match = with_matched(8, 3, <<4, 5, 6>>)
    /\ merge_scoring = DEFAULT_SCORING
    /\ merged[1].consecutive = 7
    /\ merged[1].score = 80

(***************************************************************************)
(* matching.rs: the iterator ContinuousMatches over a Match's positions.   *)
(***************************************************************************)

\* The longest position list the iterator is run on
MaxRunPositions == 4
\* The largest position of such a list
MaxRunPos == 5
\* The number of calls of next on one iterator
MaxNextCalls == 6

\* ContinuousMatch::new
ContinuousMatch(start, len) == [start |-> start, len |-> len]

\* The loop body of next that also consumes the position that opens the gap
next_step_consumes_gap(st, idx) ==
    LET start == IF st.start = None THEN Some(idx) ELSE st.start IN
    IF st.last_idx # None /\ idx - st.last_idx[1] # 1
    THEN [st EXCEPT !.start = start, !.current = @ + 1,
                    !.returned = Some(ContinuousMatch(start[1], st.len))]
    ELSE [st EXCEPT !.start = start, !.current = @ + 1, !.len = @ + 1,
                    !.last_idx = Some(idx)]

\* The loop body of ContinuousMatches::next for position idx.  st holds the
\* locals start, len and last_idx, the field current, and in returned the
\* item the loop returned with, if it did.
next_step(st, idx) ==
    LET start == IF st.start = None THEN Some(idx) ELSE st.start IN
    IF st.last_idx # None /\ idx - st.last_idx[1] # 1
    THEN [st EXCEPT !.start = start,
                    !.returned = Some(ContinuousMatch(start[1], st.len))]
    ELSE [st EXCEPT !.start = start, !.current = @ + 1, !.len = @ + 1,
                    !.last_idx = Some(idx)]

\* The loop of next over matched.iter().skip(current), from the k-th element
\* of matched on
RECURSIVE next_loop(_, _, _)
next_loop(st, positions, k) ==
    IF k > Len(positions) \/ st.returned # None THEN st
    ELSE next_loop(next_step(st, positions[k]), positions, k + 1)

\* ContinuousMatches::next: the item returned and the field current after
\* the call
next(positions, current) ==
    LET st0 == [start |-> None, len |-> 0, last_idx |-> None,
                current |-> current, returned |-> None]
        st == next_loop(st0, positions, current + 1)
    IN  IF st.returned # None
        THEN [item |-> st.returned, current |-> st.current]
        ELSE IF st.last_idx # None
        THEN [item |-> Some(ContinuousMatch(st.start[1], st.len)),
              current |-> st.current]
        ELSE [item |-> None, current |-> st.current]

\* The position list of tests::continuous
test_continuous == <<0, 1, 2, 5, 6, 10>>

\* The strictly increasing position lists the iterator is run on
RunLists ==
    {m \in Strings(0..MaxRunPos, MaxRunPositions) : StrictlyIncreasing(m)}
        \cup {test_continuous}

\* Match::continuous_matches: a new iterator over the positions
InitRuns ==
    /\ NoSearch
    /\ NoMerge
    /\ NoLib
    /\ cm_matched \in RunLists
    /\ cm_current = 0
    /\ cm_yielded = <<>>

\* One call of next on the iterator
iterator_next ==
    /\ Len(cm_yielded) < MaxNextCalls
    /\ LET r == next(cm_matched, cm_current)
       IN  /\ cm_current' = r.current
           /\ cm_yielded' = Append(cm_yielded, r.item)
    /\ UNCHANGED cm_matched
    /\ UNCHANGED <<search_vars, merge_vars, lib_vars>>

NextRuns == iterator_next

\* Draining the iterator of a position list
SpecRuns == InitRuns /\ [][NextRuns]_vars

\* The positions start, start + 1, ... of a run
RunPositions(r) == [i \in 1..r.len |-> r.start + i - 1]

\* The positions of the runs of a sequence of Some(run), in order
RECURSIVE ConcatRuns(_)
ConcatRuns(items) ==
    IF items = <<>> THEN <<>>
    ELSE RunPositions(Head(items)[1]) \o ConcatRuns(Tail(items))

IsSome(x) == x # None

\* The runs the iterator has yielded so far
YieldedRuns == SelectSeq(cm_yielded, IsSome)

\* C11: on a strictly increasing position list the iterator yields the
\* maximal contiguous runs in order: every run has a length of at least 1,
\* the positions of the runs yielded so far are exactly the positions
\* consumed so far, each run starts beyond the position that follows the
\* end of the run before it, nothing is yielded before all positions are
\* consumed (so an empty list yields no run), and once the iterator has
\* yielded nothing it yields nothing again.
C11_YieldsTheMaximalRuns ==
    /\ \A k \in 1..Len(cm_yielded) :
           cm_yielded[k] # None => cm_yielded[k][1].len >= 1
    /\ ConcatRuns(YieldedRuns) = SubSeq(cm_matched, 1, cm_current)
    /\ \A k \in 1..(Len(YieldedRuns) - 1) :
           YieldedRuns[k + 1][1].start
               > YieldedRuns[k][1].start + YieldedRuns[k][1].len
    /\ \A k \in 1..Len(cm_yielded) :
           cm_yielded[k] = None =>
               /\ ConcatRuns(YieldedRuns) = cm_matched
               /\ \A j \in k..Len(cm_yielded) : cm_yielded[j] = None
    /\ cm_matched = <<>> => YieldedRuns = <<>>

\* The iterator of tests::continuous has yielded its three runs and then
\* nothing, twice
C11_Witness ==
    /\ cm_matched = test_continuous
    /\ cm_yielded = <<Some(ContinuousMatch(0, 3)), Some(ContinuousMatch(5, 2)),
                      Some(ContinuousMatch(10, 1)), None, None>>

(***************************************************************************)
(* lib.rs: the crate root.  Its Match is [score, matches]; F is its        *)
(* FuzzySearch: [score_config, pattern, charmap, best_match, index_stack,  *)
(* score_stack, consec_len_stack].  Positions are 0-based.                 *)
(***************************************************************************)

\* The longest pattern and target the crate root's best_match is called with
MaxPatternLen == 3
MaxLibTargetLen == 4

\* char::len_utf8
len_utf8(c) ==
    IF c \in {"U+0130", "U+0307"} THEN 2
    ELSE IF c \in {"U+1F440", "U+1F448", "U+1F980"} THEN 4
    ELSE 1

\* str::len: the length in bytes
RECURSIVE str_len(_)
str_len(s) == IF s = <<>> THEN 0 ELSE len_utf8(Head(s)) + str_len(Tail(s))

Last(s) == s[Len(s)]

\* Vec::pop, for its effect on the vector
pop(s) == SubSeq(s, 1, Len(s) - 1)

\* Match::with
Match_with(score, matches) == [score |-> score, matches |-> matches]

\* The ScoreConfig of FuzzySearch::new
ScoreConfig(bonus_consecutive, penalty_distance) ==
    [bonus_consecutive |-> bonus_consecutive,
     penalty_distance |-> penalty_distance]

\* The loop body of Match::continuous_matches
continuous_matches_step(st, index) ==
    IF ~ st.is_first_index /\ index - 1 = st.last_index
    THEN [st EXCEPT !.current_len = @ + 1, !.last_index = index]
    ELSE [st EXCEPT
              !.groups = IF st.current_len > 0
                         THEN Append(@, <<st.current_start, st.current_len>>)
                         ELSE @,
              !.current_start = index,
              !.current_len = 1,
              !.is_first_index = FALSE,
              !.last_index = index]

RECURSIVE continuous_matches_loop(_, _, _)
continuous_matches_loop(st, matches, k) ==
    IF k > Len(matches) THEN st
    ELSE continuous_matches_loop(continuous_matches_step(st, matches[k]),
                                 matches, k + 1)

\* Match::continuous_matches of lib.rs: the (start, length) pairs
continuous_matches(matches) ==
    LET st0 == [groups |-> <<>>, current_start |-> 0, current_len |-> 0,
                last_index |-> 0, is_first_index |-> TRUE]
        st == continuous_matches_loop(st0, matches, 1)
    IN  IF st.current_len > 0
        THEN Append(st.groups, <<st.current_start, st.current_len>>)
        ELSE st.groups

\* build_charmap: the positions of every character of string, ascending
build_charmap(string) ==
    [c \in {string[i] : i \in DOMAIN string} |->
        LET is_c(i) == string[i + 1] = c
        IN  SelectSeq([k \in 1..Len(string) |-> k - 1], is_c)]

\* occurences
occurences(what, charmap, offset) ==
    IF what \in DOMAIN charmap
    THEN LET from_offset(i) == i >= offset
         IN  Some(SelectSeq(charmap[what], from_offset))
    ELSE None

\* max_score taking the chain to start afresh, whatever its length so far
max_score_of_fresh_chain(num_positions, consec_chain_len, config) ==
    LET num_for_tri == num_positions - 1
        triangular == (num_for_tri * (num_for_tri + 1)) \div 2
    IN  triangular * config.bonus_consecutive

\* max_score
max_score(num_positions, consec_chain_len, config) ==
    LET num_for_tri == num_positions - 1 + consec_chain_len
        triangular == (num_for_tri * (num_for_tri + 1)) \div 2
    IN  triangular * config.bonus_consecutive

\* FuzzySearch::pop_all
pop_all(F) ==
    [F EXCEPT !.index_stack = pop(@), !.score_stack = pop(@),
              !.consec_len_stack = pop(@)]

\* FuzzySearch::score_current
score_current(F) ==
    LET current_score == Last(F.score_stack) IN
    IF current_score > F.best_match.score
    THEN [F EXCEPT !.best_match = Match_with(current_score, F.index_stack)]
    ELSE F

\* The stacks after match_char has pushed its step for offset
push_step(F, offset) ==
    LET dist == IF F.index_stack = <<>> THEN 0
                ELSE offset - Last(F.index_stack)
    IN  CASE dist = 0 ->
               [F EXCEPT !.index_stack = Append(@, offset),
                         !.consec_len_stack = Append(@, 0),
                         !.score_stack = Append(@, 0)]
          [] dist = 1 ->
               LET consec_len == Last(F.consec_len_stack) + 1
                   consec_score == consec_len * F.score_config.bonus_consecutive
               IN  [F EXCEPT !.index_stack = Append(@, offset),
                             !.consec_len_stack = Append(@, consec_len),
                             !.score_stack = Append(@, Last(@) + consec_score)]
          [] OTHER ->
               LET penalty == (dist - 1) * F.score_config.penalty_distance
               IN  [F EXCEPT !.index_stack = Append(@, offset),
                             !.consec_len_stack = Append(@, 0),
                             !.score_stack = Append(@, Last(@) - penalty)]

RECURSIVE match_char(_, _, _)
RECURSIVE match_char_each(_, _, _, _)

\* for o in occurences { self.match_char(pattern_index, o) }, from the i-th
\* occurrence on
match_char_each(F, occs, i, pattern_index) ==
    IF i > Len(occs) THEN F
    ELSE match_char_each(match_char(F, pattern_index, occs[i]), occs, i + 1,
                         pattern_index)

\* FuzzySearch::match_char: the FuzzySearch after the call
match_char(F, pattern_index, offset) ==
    LET F1 == push_step(F, offset)
        \* new_score is the score pushed: 0 for the first match
        new_score == Last(F1.score_stack)
        max_left_score ==
            max_score(str_len(F.pattern) - (Len(F1.index_stack) - 1),
                      Last(F1.consec_len_stack), F.score_config)
    IN  IF new_score + max_left_score < F.best_match.score
        THEN pop_all(F1)
        ELSE IF ~ (pattern_index < Len(F.pattern))
        THEN pop_all(score_current(F1))
        ELSE LET occs == occurences(F.pattern[pattern_index + 1], F.charmap,
                                    offset + 1)
             IN  IF occs = None THEN pop_all(F1)
                 ELSE pop_all(match_char_each(F1, occs[1], 1, pattern_index + 1))

\* FuzzySearch::start_matching
start_matching(F) ==
    LET occs == occurences(F.pattern[1], F.charmap, 0)
    IN  IF occs = None THEN F ELSE match_char_each(F, occs[1], 1, 1)

\* FuzzySearch::new of lib.rs, for inputs it does not panic on
lib_new(pattern, string) ==
    [score_config |-> ScoreConfig(16, 4),
     pattern |-> pattern,
     charmap |-> build_charmap(string),
     best_match |-> Match_with(0, <<>>),
     index_stack |-> <<>>,
     score_stack |-> <<>>,
     consec_len_stack |-> <<>>]

\* FuzzySearch::best_match of lib.rs
searcher_lib_best_match(F) == Some(start_matching(F).best_match)

\* best_match of lib.rs: whether the call panicked, and what it returned
lib_best_match(pattern, string) ==
    LET condensed == SelectSeq(pattern, NotWhitespace) IN
    IF str_len(condensed) = 0 \/ str_len(string) = 0
    THEN [panicked |-> TRUE, value |-> None]
    ELSE [panicked |-> FALSE,
          value |-> searcher_lib_best_match(lib_new(condensed, string))]

\* string.chars().skip(n).take(k)
skip_take(string, n, k) == SubSeq(string, n + 1, Min(n + k, Len(string)))

\* The loop of format_simple over the groups, from the k-th on; st holds
\* pieces, joined, and last_end
RECURSIVE format_groups(_, _, _, _, _, _)
format_groups(st, groups, k, string, before, after) ==
    IF k > Len(groups) THEN st
    ELSE LET start == groups[k][1]
             len == groups[k][2]
         IN  format_groups(
                 [pieces |-> st.pieces
                                 \o skip_take(string, st.last_end, start - st.last_end)
                                 \o before
                                 \o skip_take(string, start, len)
                                 \o after,
                  last_end |-> start + len],
                 groups, k + 1, string, before, after)

\* format_simple that does not append what follows the last group
format_simple_without_rest(a_match, string, before, after) ==
    format_groups([pieces |-> <<>>, last_end |-> 0],
                  continuous_matches(a_match.matches), 1, string, before,
                  after).pieces

\* format_simple
format_simple(a_match, string, before, after) ==
    LET st == format_groups([pieces |-> <<>>, last_end |-> 0],
                            continuous_matches(a_match.matches), 1, string,
                            before, after)
    IN  IF st.last_end # str_len(string)
        THEN st.pieces \o SubSeq(string, st.last_end + 1, Len(string))
        ELSE st.pieces

\* The characters the bounded patterns and targets are drawn from: a
\* letter, a whitespace, and a letter of two bytes
LibAlphabet == {"a", " ", "U+0130"}

\* The searches of tests::formatting_works_1 and tests::formatting_works_2
LibExamples ==
    {<<str_obscoll, str_observablecollection>>,
     <<str_something, str_some_search_thing>>}

\* The marker pairs of main and of tests::formatting_works_1
Markers ==
    {<< <<"<">>, <<">">> >>,
     << <<"<", "~">>, <<"~", ">">> >>}

\* The line main prints when best_match returned None
NoMatchLine == <<"N", "o", " ", "m", "a", "t", "c", "h">>

InitLib ==
    /\ NoSearch
    /\ NoMerge
    /\ NoRuns
    /\ \E e \in (Strings(LibAlphabet, MaxPatternLen)
                    \X Strings(LibAlphabet, MaxLibTargetLen)) \cup LibExamples :
           /\ lib_pattern = e[1]
           /\ lib_target = e[2]
    /\ lib_state = "start"
    /\ lib_result = None
    /\ lib_formatted = None
    /\ lib_search = None

\* best_match(q, s) of lib.rs
call_best_match ==
    /\ lib_state = "start"
    /\ LET r == lib_best_match(lib_pattern, lib_target)
       IN  /\ lib_state' = IF r.panicked THEN "panicked" ELSE "returned"
           /\ lib_result' = r.value
    /\ UNCHANGED <<lib_pattern, lib_target, lib_formatted, lib_search>>
    /\ UNCHANGED <<search_vars, merge_vars, runs_vars>>

\* What main does with the result: format_simple(&m, s, before, after), or
\* "No match"
print_result ==
    /\ lib_state = "returned"
    /\ \E mk \in Markers :
           lib_formatted' =
               Some([before |-> mk[1], after |-> mk[2],
                     line |-> IF lib_result # None
                              THEN format_simple(lib_result[1], lib_target,
                                                 mk[1], mk[2])
                              ELSE NoMatchLine])
    /\ lib_state' = "formatted"
    /\ UNCHANGED <<lib_pattern, lib_target, lib_result, lib_search>>
    /\ UNCHANGED <<search_vars, merge_vars, runs_vars>>

NextLib == call_best_match \/ print_result

\* Calls of the crate root's best_match and format_simple
SpecLib == InitLib /\ [][NextLib]_vars

\* The set of the positions of a position list
Positions(m) == {m[k] : k \in DOMAIN m}

\* The number of maximal contiguous runs of a strictly increasing list
NumRuns(m) == Cardinality({k \in DOMAIN m : k = 1 \/ m[k] # m[k - 1] + 1})

\* string from its i-th character on, with before put in front of every
\* position of ps whose predecessor is not in ps, and after put behind every
\* position of ps whose successor is not in ps
RECURSIVE Wrapped(_, _, _, _, _)
Wrapped(string, ps, before, after, i) ==
    IF i > Len(string) THEN <<>>
    ELSE (IF (i - 1) \in ps /\ (i - 2) \notin ps THEN before ELSE <<>>)
         \o <<string[i]>>
         \o (IF (i - 1) \in ps /\ i \notin ps THEN after ELSE <<>>)
         \o Wrapped(string, ps, before, after, i + 1)

\* The characters of the Markers; no pattern or target has them
NotMarkerChar(c) == c \notin {"<", ">", "~"}

Count(s, c) == Cardinality({k \in DOMAIN s : s[k] = c})

\* C12: the line format_simple returns for a Match best_match returned on
\* the same target is the target with the before marker in front of the
\* first and the after marker behind the last character of every maximal
\* run of matched positions: without the markers it is the target, and it
\* has as many before and as many after markers as the Match has runs.
C12_FormatWrapsEveryRun ==
    lib_state = "formatted" /\ lib_result # None =>
        LET f == lib_formatted[1]
            m == lib_result[1].matches
        IN  /\ f.line = Wrapped(lib_target, Positions(m), f.before, f.after, 1)
            /\ SelectSeq(f.line, NotMarkerChar) = lib_target
            /\ Count(f.line, "<") = NumRuns(m)
            /\ Count(f.line, ">") = NumRuns(m)

\* tests::formatting_works_1: "obscoll" in "observablecollection" has been
\* formatted as "<~obs~>ervable<~coll~>ection"
C12_Witness ==
    /\ lib_state = "formatted"
    /\ lib_pattern = str_obscoll
    /\ lib_result # None
    /\ NumRuns(lib_result[1].matches) = 2
    /\ lib_formatted[1].line =
           <<"<", "~", "o", "b", "s", "~", ">", "e", "r", "v", "a", "b", "l",
             "e", "<", "~", "c", "o", "l", "l", "~", ">", "e", "c", "t", "i",
             "o", "n">>

\* C13: the crate root's best_match returns None when the pattern without
\* its whitespace is empty, when the target is empty, and when the pattern's
\* characters do not occur in the target in order, so that main prints
\* "No match" in exactly these cases; a Match it returns holds one position
\* per pattern character.
C13_NoneWithoutAlignment ==
    lib_state # "start" =>
        LET condensed == SelectSeq(lib_pattern, NotWhitespace)
            no_alignment == \/ condensed = <<>>
                            \/ lib_target = <<>>
                            \/ ~ OccursInOrder(condensed, lib_target, FALSE)
        IN  /\ no_alignment => lib_state # "panicked" /\ lib_result = None
            /\ lib_result # None =>
                   Len(lib_result[1].matches) = Len(condensed)
            /\ lib_state = "formatted" =>
                   (lib_formatted[1].line = NoMatchLine <=> no_alignment)

(***************************************************************************)
(* Searches in longer targets over fewer characters, in which match_ is    *)
(* reached again with a key it has cached.                                 *)
(***************************************************************************)

\* The longest query and target of these searches
MaxDeepQueryLen == 2
MaxDeepTargetLen == 4

\* A lower-case letter, an upper-case letter and a separator
DeepAlphabet == {"a", "A", "-"}

InitDeep ==
    /\ \E q \in Strings(DeepAlphabet, MaxDeepQueryLen),
          t \in Strings(DeepAlphabet, MaxDeepTargetLen) : new(q, t)
    /\ NoMerge
    /\ NoRuns
    /\ NoLib

SpecDeep == InitDeep /\ [][Next]_vars

\* The score of alignment p from its i-th position on, in one pass from left
\* to right: the local score of every position, less the penalty of every gap
RECURSIVE LeftToRightScore(_, _, _)
LeftToRightScore(S, p, i) ==
    IF i > Len(p) THEN 0
    ELSE local_match(S, p, i).score
         - (IF i > 1 /\ p[i] - p[i - 1] > 1
            THEN (p[i] - p[i - 1] - 1) * S.scoring.penalty_distance ELSE 0)
         + LeftToRightScore(S, p, i + 1)

\* C14: the score of the Match best_match returns is the score of one pass
\* from left to right over its positions: for every position the run bonus
\* of the run it continues, its word-start bonus and its case bonus, less
\* the distance penalty of every gap.
C14_ScoreIsLeftToRightScore ==
    state = "done" /\ result # None =>
        result[1].score = LeftToRightScore(current_searcher, result[1].matched, 1)

RECURSIVE IsWordStart(_, _)
IsWordStart(t, i) ==
    /\ is_alphanumeric(t[i])
    /\ \/ i = 1
       \/ ~ is_alphanumeric(t[i - 1])
       \/ /\ ~ IsWordStart(t, i - 1)
          /\ is_uppercase(t[i]) # is_uppercase(t[i - 1])

\* C16: in the index best_match built, an occurrence is marked is_start
\* exactly when its position starts a word of the target; an occurrence of a
\* separator is never marked, and no two occurrences at adjacent positions
\* are both marked.
C16_StartsAreWordStarts ==
    state = "done" =>
        LET occs == current_searcher.occurrences
            all == UNION {{occs[key][k] : k \in DOMAIN occs[key]} :
                              key \in DOMAIN occs}
        IN  /\ \A o \in all :
                   /\ o.is_start <=> IsWordStart(target, o.target_idx + 1)
                   /\ ~ is_alphanumeric(target[o.target_idx + 1]) => ~ o.is_start
            /\ \A o1, o2 \in all :
                   o2.target_idx = o1.target_idx + 1 =>
                       ~ (o1.is_start /\ o2.is_start)

\* The index of "aAa" for the query "a", case ignored: the first character
\* starts a word, the second does not although its case differs, the third
\* does
C16_Witness ==
    /\ state = "done"
    /\ case_insensitive
    /\ target = <<"a", "A", "a">>
    /\ query = <<"a">>
    /\ current_searcher.occurrences["a"] =
           <<Occurrence(0, TRUE, "a"), Occurrence(1, FALSE, "A"),
             Occurrence(2, TRUE, "a")>>

\* C17: consecutive of the Match best_match returns is the length of the run
\* that ends at its last position (counting the positions of the run, or
\* those before the last).
C17_ConsecutiveIsLastRun ==
    state = "done" /\ result # None =>
        LET m == result[1]
            run == run_length(m.matched, Len(m.matched))
        IN  m.consecutive \in {run, run + 1}

\* C18: for Matches A, B and C, every one before the next, extending A with
\* B and the result with C gives the score and the positions of extending A
\* with B extended with C.
C18_ExtendIsAssociative ==
    merged # None /\ MergedBothNonEmpty /\ MergeDistance > 0 =>
        \A c \in Matches :
            c.matched # <<>>
            /\ other_match.matched[Len(other_match.matched)] < c.matched[1] =>
                LET left == extend_with(merged[1], c, merge_scoring)
                    right == extend_with(
                                 self_match,
                                 extend_with(other_match, c, merge_scoring),
                                 merge_scoring)
                IN  left.score = right.score /\ left.matched = right.matched

\* The keys of the successful calls match_(1, o, 0) of best_match: its
\* candidate branches
TopKeys ==
    {j \in DOMAIN match_cache : j[1] = 1 /\ j[3] = 0 /\ match_cache[j] # None}

\* The keys of the successful continuations of the call with key k: the
\* calls for the next query character at a later position, with the run
\* length match_ passes on
ContinuationKeys(k) ==
    {j \in DOMAIN match_cache :
        /\ j[1] = k[1] + 1
        /\ j[2] > k[2]
        /\ j[3] = (IF j[2] - k[2] = 1 THEN k[3] + 1 ELSE 0)
        /\ match_cache[j] # None}

\* The keys of K whose Match has the maximal score
MaximalKeys(K) ==
    {j \in K : \A i \in K : match_cache[i][1].score <= match_cache[j][1].score}

\* The key of K with the lowest, and with the highest, target index
FirstKey(K) == CHOOSE j \in K : \A i \in K : j[2] <= i[2]

LastKey(K) == CHOOSE j \in K : \A i \in K : i[2] <= j[2]

\* C19 as claimed: of the branches with the maximal score, best_match and
\* match_ choose the one with the lowest target index.
C19_FirstMaximalBranchIsChosen ==
    state = "done" =>
        /\ result # None =>
               result[1] = match_cache[FirstKey(MaximalKeys(TopKeys))][1]
        /\ \A k \in DOMAIN match_cache :
               match_cache[k] # None /\ Len(match_cache[k][1].matched) > 1 =>
                   match_cache[k][1].matched[2]
                       = FirstKey(MaximalKeys(ContinuationKeys(k)))[2]

\* C19, amended: of the branches with the maximal score, best_match and
\* match_ choose the one with the highest target index, the last one the
\* traversal comes to.
C19_LastMaximalBranchIsChosen ==
    state = "done" =>
        /\ result # None =>
               result[1] = match_cache[LastKey(MaximalKeys(TopKeys))][1]
        /\ \A k \in DOMAIN match_cache :
               match_cache[k] # None /\ Len(match_cache[k][1].matched) > 1 =>
                   match_cache[k][1].matched[2]
                       = LastKey(MaximalKeys(ContinuationKeys(k)))[2]

\* A search has ended in which several starting branches had the maximal
\* score
C19_Witness ==
    /\ state = "done"
    /\ result # None
    /\ Len(result[1].matched) > 1
    /\ Cardinality(MaximalKeys(TopKeys)) > 1

\* The FuzzySearch fs with bonus_match_case of its Scoring set to b
with_bonus_match_case(fs, b) ==
    [fs EXCEPT !.scoring =
        Some([(IF fs.scoring = None THEN DEFAULT_SCORING ELSE fs.scoring[1])
                  EXCEPT !.bonus_match_case = b])]

\* The Match match_ builds for the call with key k alone
key_match(S, k) ==
    LET occurrence == occurrence_at(S, queried_char(S, S.query[k[1]]), k[2])[1]
    IN  with_matched(
            k[3] * S.scoring.bonus_consecutive
            + (IF occurrence.is_start THEN 1 ELSE 0) * S.scoring.bonus_word_start
            + (IF S.case_insensitive /\ S.query[k[1]].original = target[k[2] + 1]
               THEN S.scoring.bonus_match_case ELSE 0),
            k[3], <<k[2]>>)

\* C20: a case-sensitive search returns the same Match whatever
\* bonus_match_case is; in a search ignoring case the score of every
\* position includes bonus_match_case exactly when the query character as
\* typed is the target's character at that position: every Match of
\* match_cache is the Match of its own position, with the bonus on that
\* condition, extended with the continuation chosen.
C20_CaseBonusOnlyWhenIgnoringCase ==
    state = "done" =>
        /\ ~ case_insensitive =>
               \A b \in {0, 8, 20} :
                   fuzzy_best_match(with_bonus_match_case(current_search, b)).res
                       = result
        /\ \A k \in DOMAIN match_cache :
               match_cache[k] # None =>
                   LET S == current_searcher
                       m == match_cache[k][1]
                   IN  IF Len(m.matched) = 1 THEN m = key_match(S, k)
                       ELSE m = extend_with(
                                key_match(S, k),
                                match_cache[LastKey(MaximalKeys(ContinuationKeys(k)))][1],
                                S.scoring)

\* A case-sensitive search has returned a Match, and so has a search
\* ignoring case whose query has a character typed as in the target and one
\* typed otherwise
C20_Witness ==
    /\ state = "done"
    /\ result # None
    /\ \/ ~ case_insensitive /\ Len(result[1].matched) > 1
       \/ /\ case_insensitive
          /\ \E i, j \in 1..Len(result[1].matched) :
                 /\ query[i] = target[result[1].matched[i] + 1]
                 /\ query[j] # target[result[1].matched[j] + 1]

(***************************************************************************)
(* The occurrence index against the target it was built from.              *)
(***************************************************************************)

\* The character a query or target character is filed under: (the first
\* code point of) its own lower-case form when case is ignored, itself
\* otherwise
KeyCharOf(c, ci) == IF ci THEN Head(char_to_lowercase(c)) ELSE c

\* The index best_match builds for the search of the state
current_occurrences ==
    build_occurrences(process_query(query), target, case_insensitive)

\* C21: the occurrence index is exact for the queried characters: a key is
\* the key character of a character of the stripped query, its list is not
\* empty and strictly ascending by target_idx, every Occurrence in it is a
\* target position whose key character is that key, and every target
\* position (separators included) whose key character is a queried key has
\* exactly one Occurrence in that key's list, carrying the original
\* character of the position.
C21_IndexIsExact ==
    (state = "done" /\ StrippedQuery # <<>> /\ target # <<>>) =>
    LET occs == current_occurrences
        ci == case_insensitive
        QueryKeys == {KeyCharOf(StrippedQuery[i], ci) : i \in 1..Len(StrippedQuery)}
    IN  /\ \A key \in DOMAIN occs :
               /\ key \in QueryKeys
               /\ occs[key] # <<>>
               /\ \A k \in 1..(Len(occs[key]) - 1) :
                      occs[key][k].target_idx < occs[key][k + 1].target_idx
               /\ \A k \in 1..Len(occs[key]) :
                      /\ occs[key][k].target_idx \in 0..(Len(target) - 1)
                      /\ KeyCharOf(target[occs[key][k].target_idx + 1], ci) = key
        /\ \A i \in 1..Len(target) :
               KeyCharOf(target[i], ci) \in QueryKeys
                   => LET key == KeyCharOf(target[i], ci) IN
                      /\ key \in DOMAIN occs
                      /\ Cardinality({k \in 1..Len(occs[key]) :
                                         occs[key][k].target_idx = i - 1}) = 1
                      /\ \A k \in 1..Len(occs[key]) :
                             occs[key][k].target_idx = i - 1
                                 => occs[key][k].char = target[i]

(***************************************************************************)
(* search.rs: the recursion of FuzzySearcher::match_ call by call.  stack  *)
(* holds one frame for every call of match_ that has not returned yet, the *)
(* innermost last; top_iter is the iterator chain of                       *)
(* FuzzySearcher::best_match.  A frame holds the arguments of its call,    *)
(* this_match, the occurrences its iterator chain has not yet visited, the *)
(* maximum so far, and ret: None while the chain runs, Some(v) once the    *)
(* call has v to return.  searcher is the FuzzySearcher best_match built,  *)
(* with the occurrences it is run on.                                      *)
(***************************************************************************)
MaxStepQueryLen == 3

MaxStepTargetLen == 3

\* .filter(|&o| o.target_idx >= occurrence.target_idx)
continuations_from_same_index(occs, occurrence) ==
    LET later(o) == o.target_idx >= occurrence.target_idx
    IN  SelectSeq(occs, later)

\* .filter(|&o| o.target_idx > occurrence.target_idx)
continuations(occs, occurrence) ==
    LET later(o) == o.target_idx > occurrence.target_idx
    IN  SelectSeq(occs, later)

\* score and this_match of match_
new_this_match(S, query_idx, occurrence, consecutive) ==
    with_matched(
        consecutive * S.scoring.bonus_consecutive
        + (IF occurrence.is_start THEN 1 ELSE 0) * S.scoring.bonus_word_start
        + case_bonus(S, query_idx - 1, occurrence),
        consecutive, <<occurrence.target_idx>>)

\* The frame of a call of match_ at the point where it either returns at
\* once (cache hit, last query character, no occurrence of the next one) or
\* starts its iterator chain, with match_cache as the call leaves it there
enter_match(S, query_idx, occurrence, consecutive, cache) ==
    LET this_key == cache_key(query_idx, occurrence, consecutive)
        this_match == new_this_match(S, query_idx, occurrence, consecutive)
        frame == [query_idx |-> query_idx, occurrence |-> occurrence,
                  consecutive |-> consecutive, this_match |-> this_match,
                  pending |-> <<>>, best |-> None, ret |-> None]
    IN  IF this_key \in DOMAIN cache
        THEN [frame |-> [frame EXCEPT !.ret = Some(cache[this_key])],
              cache |-> cache]
        ELSE IF ~ (query_idx < Len(S.query))
        THEN [frame |-> [frame EXCEPT !.ret = Some(Some(this_match))],
              cache |-> cache_insert(cache, this_key, Some(this_match))]
        ELSE
        LET next_key == queried_char(S, S.query[query_idx + 1]) IN
        IF next_key \notin DOMAIN S.occurrences
        THEN [frame |-> [frame EXCEPT !.ret = Some(None)],
              cache |-> cache_insert(cache, this_key, None)]
        ELSE [frame |-> [frame EXCEPT
                            !.pending = continuations(S.occurrences[next_key],
                                                      occurrence)],
              cache |-> cache]

\* What a call whose iterator chain is exhausted returns: the maximum of the
\* continuations joined to this_match
chain_result(S, frame) ==
    IF frame.best = None THEN None
    ELSE Some(extend_with(frame.this_match, frame.best[1], S.scoring))

\* A value returned by match_ folded into the max of the caller's chain
fold_returned(best, v) == IF v = None THEN best ELSE max_step(best, v[1])

StepAlphabet == {"a", " ", "U+0130"}

InitSteps ==
    /\ \E q \in Strings(StepAlphabet, MaxStepQueryLen),
          t \in Strings(StepAlphabet, MaxStepTargetLen) : new(q, t)
    /\ NoMerge
    /\ NoRuns
    /\ NoLib

\* FuzzySearch::best_match down to the iterator of FuzzySearcher::best_match
start_search ==
    /\ state = "built"
    /\ \E S \in {current_searcher} :
       LET key == queried_char(S, S.query[1])
       IN  IF Len(S.query) = 0 \/ Len(target) = 0
           THEN /\ state' = "done"
                /\ UNCHANGED <<top_iter, searcher>>
           ELSE IF key \notin DOMAIN S.occurrences
           THEN /\ state' = "done"
                /\ searcher' = Some(S)
                /\ UNCHANGED top_iter
           ELSE /\ state' = "running"
                /\ searcher' = Some(S)
                /\ top_iter' = [pending |-> S.occurrences[key], best |-> None]
    /\ UNCHANGED <<query, target, scoring, case_insensitive, result,
                   match_cache, calls, stack>>
    /\ UNCHANGED <<merge_vars, runs_vars, lib_vars>>

\* The closure of filter_map in FuzzySearcher::best_match calls match_
call_from_best_match ==
    /\ state = "running"
    /\ stack = <<>>
    /\ top_iter.pending # <<>>
    /\ LET e == enter_match(searcher[1], 1, Head(top_iter.pending), 0,
                            match_cache)
       IN  /\ stack' = <<e.frame>>
           /\ match_cache' = e.cache
    /\ top_iter' = [top_iter EXCEPT !.pending = Tail(@)]
    /\ calls' = calls + 1
    /\ UNCHANGED <<query, target, scoring, case_insensitive, state, result,
                   searcher>>
    /\ UNCHANGED <<merge_vars, runs_vars, lib_vars>>

\* The closure of filter_map in match_ calls match_
call_from_match ==
    /\ state = "running"
    /\ stack # <<>>
    /\ LET caller == Last(stack)
           d == Len(stack)
       IN  /\ caller.ret = None
           /\ caller.pending # <<>>
           /\ LET o == Head(caller.pending)
                  distance == o.target_idx - caller.occurrence.target_idx
                  new_consecutive ==
                      IF distance = 1 THEN caller.consecutive + 1 ELSE 0
                  e == enter_match(searcher[1], caller.query_idx + 1, o,
                                   new_consecutive, match_cache)
              IN  /\ stack' = Append([stack EXCEPT ![d].pending = Tail(@)],
                                     e.frame)
                  /\ match_cache' = e.cache
    /\ calls' = calls + 1
    /\ UNCHANGED <<query, target, scoring, case_insensitive, state, result,
                   top_iter, searcher>>
    /\ UNCHANGED <<merge_vars, runs_vars, lib_vars>>

\* The innermost call of match_ returns: at once with the value found on
\* entry, or with the result of its exhausted chain, which it caches
return_from_match ==
    /\ state = "running"
    /\ stack # <<>>
    /\ LET frame == Last(stack)
           d == Len(stack)
           S == searcher[1]
           this_key == cache_key(frame.query_idx, frame.occurrence,
                                 frame.consecutive)
           v == IF frame.ret # None THEN frame.ret[1] ELSE chain_result(S, frame)
       IN  /\ frame.ret # None \/ frame.pending = <<>>
           /\ match_cache' = IF frame.ret # None THEN match_cache
                             ELSE cache_insert(match_cache, this_key, v)
           /\ IF d = 1
              THEN /\ stack' = <<>>
                   /\ top_iter' = [top_iter EXCEPT !.best = fold_returned(@, v)]
              ELSE /\ stack' = [SubSeq(stack, 1, d - 1)
                                   EXCEPT ![d - 1].best = fold_returned(@, v)]
                   /\ UNCHANGED top_iter
    /\ UNCHANGED <<query, target, scoring, case_insensitive, state, result, calls,
                   searcher>>
    /\ UNCHANGED <<merge_vars, runs_vars, lib_vars>>

\* max() of FuzzySearcher::best_match has seen every occurrence: best_match
\* returns
finish_search ==
    /\ state = "running"
    /\ stack = <<>>
    /\ top_iter.pending = <<>>
    /\ result' = top_iter.best
    /\ state' = "done"
    /\ UNCHANGED <<query, target, scoring, case_insensitive, match_cache, calls,
                   stack, top_iter, searcher>>
    /\ UNCHANGED <<merge_vars, runs_vars, lib_vars>>

NextSteps ==
    \/ case_sensitive
    \/ start_search
    \/ call_from_best_match
    \/ call_from_match
    \/ return_from_match
    \/ finish_search

\* A search run call by call.  Whether and when best_match is called is up
\* to the caller; once it is called the thread runs on: a step of the search
\* that can be taken is taken.
SpecSteps ==
    /\ InitSteps
    /\ [][NextSteps]_vars
    /\ WF_vars(call_from_best_match \/ call_from_match \/ return_from_match
                   \/ finish_search)

\* A value match_ returns from a call with query_idx: None, or a Match with
\* one position for every query character from the call's own on
FullOrNone(v, query_idx) ==
    v = None \/ Len(v[1].matched) = Len(StrippedQuery) - query_idx + 1

\* The calls of match_ now running are nested as the recursion nests them:
\* the d-th has query_idx d, each is at a strictly greater target index than
\* its caller, and there are at most as many as the stripped query has
\* characters
RecursionIsBounded ==
    /\ Len(stack) <= Len(StrippedQuery)
    /\ \A d \in 1..Len(stack) : stack[d].query_idx = d
    /\ \A d \in 2..Len(stack) :
           stack[d].occurrence.target_idx > stack[d - 1].occurrence.target_idx

\* Whatever a call of match_ has returned so far (to its caller's chain, to
\* the cache, as the result of the search) is a full Match or None
ReturnsFullOrNone ==
    /\ \A d \in 1..Len(stack) :
           /\ stack[d].ret # None => FullOrNone(stack[d].ret[1], d)
           /\ FullOrNone(stack[d].best, d + 1)
    /\ FullOrNone(top_iter.best, 1)
    /\ \A k \in DOMAIN match_cache : FullOrNone(match_cache[k], k[1])
    /\ state = "done" =>
           (result = None \/ Len(result[1].matched) = Len(StrippedQuery))

\* C22: every search terminates: each recursive call of match_ has a
\* query_idx one greater than its caller's and a strictly greater target
\* index, the recursion is never deeper than the stripped query is long,
\* every call returns a full Match or None, and a best_match that was
\* called returns.
C22_SearchTerminates ==
    /\ [](RecursionIsBounded /\ ReturnsFullOrNone)
    /\ (state = "running") ~> (state = "done")

\* A query with a whitespace character whose recursion is as deep as the
\* stripped query is long, the innermost call about to return
C22_Witness ==
    /\ state = "running"
    /\ Len(query) = 3
    /\ Len(StrippedQuery) = 2
    /\ Len(stack) = 2
    /\ stack[2].ret # None

(***************************************************************************)
(* lib.rs: a FuzzySearch built by its caller, given a ScoreConfig and run, *)
(* and the same search with the pruning test of match_char removed.        *)
(***************************************************************************)
MaxSearchPatternLen == 3

MaxSearchTargetLen == 5

RECURSIVE match_char_unpruned(_, _, _)
RECURSIVE match_char_each_unpruned(_, _, _, _)

\* for o in occurences { self.match_char(pattern_index, o) } without pruning
match_char_each_unpruned(F, occs, i, pattern_index) ==
    IF i > Len(occs) THEN F
    ELSE match_char_each_unpruned(match_char_unpruned(F, pattern_index, occs[i]),
                                  occs, i + 1, pattern_index)

\* FuzzySearch::match_char without its test of new_score + max_left_score
match_char_unpruned(F, pattern_index, offset) ==
    LET F1 == push_step(F, offset)
    IN  IF ~ (pattern_index < Len(F.pattern))
        THEN pop_all(score_current(F1))
        ELSE LET occs == occurences(F.pattern[pattern_index + 1], F.charmap,
                                    offset + 1)
             IN  IF occs = None THEN pop_all(F1)
                 ELSE pop_all(match_char_each_unpruned(F1, occs[1], 1,
                                                       pattern_index + 1))

\* FuzzySearch::start_matching over match_char without pruning
start_matching_unpruned(F) ==
    LET occs == occurences(F.pattern[1], F.charmap, 0)
    IN  IF occs = None THEN F ELSE match_char_each_unpruned(F, occs[1], 1, 1)

\* The loop body of calc_score
calc_score_step(st, pos) ==
    IF st.is_first_pos
    THEN [st EXCEPT !.last_pos = pos, !.is_first_pos = FALSE]
    ELSE LET dist == pos - st.last_pos IN
         IF dist = 1
         THEN [st EXCEPT
                  !.consec_chain_len = @ + 1,
                  !.score = @ + (st.consec_chain_len + 1) * st.config.bonus_consecutive,
                  !.last_pos = pos]
         ELSE [st EXCEPT
                  !.score = @ - dist * st.config.penalty_distance,
                  !.consec_chain_len = 0,
                  !.last_pos = pos]

RECURSIVE calc_score_loop(_, _, _)
calc_score_loop(st, positions, k) ==
    IF k > Len(positions) THEN st
    ELSE calc_score_loop(calc_score_step(st, positions[k]), positions, k + 1)

\* fn calc_score
calc_score(positions, config) ==
    calc_score_loop([score |-> 0, last_pos |-> 0, is_first_pos |-> TRUE,
                     consec_chain_len |-> 0, config |-> config],
                    positions, 1).score

\* The characters the patterns and targets of a FuzzySearch are drawn from:
\* a letter of one byte and a letter of two
SearchAlphabet == {"a", "U+0130"}

\* The ScoreConfigs set_score_config is called with: none of the two values
\* negative
ConfigChoices == {ScoreConfig(b, p) : b \in {0, 1, 16}, p \in {0, 4}}

\* FuzzySearch::new(pattern, string), for the inputs it does not panic on
InitSearch ==
    /\ NoSearch
    /\ NoMerge
    /\ NoRuns
    /\ \E p \in Strings(SearchAlphabet, MaxSearchPatternLen) \ {<<>>},
          t \in Strings(SearchAlphabet, MaxSearchTargetLen) \ {<<>>} :
           /\ lib_pattern = p
           /\ lib_target = t
           /\ lib_search = Some(lib_new(p, t))
    /\ lib_state = "start"
    /\ lib_result = None
    /\ lib_formatted = None

\* FuzzySearch::set_score_config
set_score_config ==
    /\ lib_state = "start"
    /\ \E config \in ConfigChoices :
           lib_search' = Some([lib_search[1] EXCEPT !.score_config = config])
    /\ UNCHANGED <<lib_pattern, lib_target, lib_state, lib_result, lib_formatted>>
    /\ UNCHANGED <<search_vars, merge_vars, runs_vars>>

\* FuzzySearch::best_match
search_best_match ==
    /\ lib_state = "start"
    /\ LET F == start_matching(lib_search[1])
       IN  /\ lib_search' = Some(F)
           /\ lib_result' = Some(F.best_match)
    /\ lib_state' = "returned"
    /\ UNCHANGED <<lib_pattern, lib_target, lib_formatted>>
    /\ UNCHANGED <<search_vars, merge_vars, runs_vars>>

\* Match::calc_score on the Match returned, with the ScoreConfig of the search
match_calc_score ==
    /\ lib_state = "returned"
    /\ lib_result' =
           Some([lib_result[1] EXCEPT
                    !.score = calc_score(lib_result[1].matches,
                                         lib_search[1].score_config)])
    /\ lib_state' = "rescored"
    /\ UNCHANGED <<lib_pattern, lib_target, lib_formatted, lib_search>>
    /\ UNCHANGED <<search_vars, merge_vars, runs_vars>>

NextSearch == set_score_config \/ search_best_match \/ match_calc_score

\* A FuzzySearch of lib.rs configured and run by its caller
SpecSearch == InitSearch /\ [][NextSearch]_vars

\* The FuzzySearch of the state as it was when best_match was called
search_at_call ==
    [lib_new(lib_pattern, lib_target)
        EXCEPT !.score_config = lib_search[1].score_config]

\* The complete paths of the search: one position per pattern character,
\* strictly increasing, each holding that character
Paths ==
    {p \in [1..Len(lib_pattern) -> 0..(Len(lib_target) - 1)] :
        /\ StrictlyIncreasing(p)
        /\ \A i \in 1..Len(p) : lib_target[p[i] + 1] = lib_pattern[i]}

\* The FuzzySearch with the first k positions of path p on its stacks, as
\* match_char pushes them
RECURSIVE pushed(_, _, _)
pushed(F, p, k) ==
    IF k = 0 THEN F ELSE push_step(pushed(F, p, k - 1), p[k])

\* C23: pruning is sound.  Under a ScoreConfig without negative values
\* max_score bounds what the rest of the pattern can still add: on every
\* complete path, after every step, the score so far plus max_left_score is
\* at least the score the path completes with.  No complete path scores
\* higher than what best_match returns, and best_match returns the score
\* the search without the pruning test returns.
C23_PruningIsSound ==
    lib_state = "returned" =>
        LET F == search_at_call IN
        /\ \A p \in Paths :
               LET done == Last(pushed(F, p, Len(p)).score_stack) IN
               /\ \A k \in 1..Len(p) :
                      LET Fk == pushed(F, p, k) IN
                      done <= Last(Fk.score_stack)
                              + max_score(str_len(F.pattern) - (k - 1),
                                          Last(Fk.consec_len_stack),
                                          F.score_config)
               /\ done <= lib_result[1].score
        /\ lib_result[1].score = start_matching_unpruned(F).best_match.score

\* Path q is walked before any path that starts with the first k positions
\* of path p: the occurrences are tried in ascending order
WalkedBefore(q, p, k) ==
    \E j \in 1..k : q[j] < p[j] /\ \A i \in 1..(j - 1) : q[i] = p[i]

\* A search in which the pruning test cuts a path off before its end: the
\* score best_match returns was reached on a path walked before, and the
\* bound of the path's first k positions is below it
C23_Witness ==
    /\ lib_state = "returned"
    /\ lib_result[1].score > 0
    /\ \E p \in Paths : \E k \in 1..(Len(p) - 1) :
           LET Fk == pushed(search_at_call, p, k) IN
           /\ Last(Fk.score_stack)
                  + max_score(str_len(lib_pattern) - (k - 1),
                              Last(Fk.consec_len_stack), Fk.score_config)
              < lib_result[1].score
           /\ \E q \in Paths :
                  /\ WalkedBefore(q, p, k)
                  /\ Last(pushed(search_at_call, q, Len(q)).score_stack)
                         = lib_result[1].score

\* C24: the two scoring routines of lib.rs agree: for the Match best_match
\* returns under a ScoreConfig, calc_score of its positions under the same
\* ScoreConfig is the score it already holds, so Match::calc_score leaves
\* the score as it was.
C24_CalcScoreAgrees ==
    lib_state = "returned" =>
        calc_score(lib_result[1].matches, lib_search[1].score_config)
            = lib_result[1].score

=============================================================================
